---- MODULE Spec2Model ----
(***************************************************************************)
(* Vote Chess (the `vc` command of src/bot.py): the match store and the    *)
(* handlers that write it.                                                 *)
(*                                                                         *)
(* The store is the sqlite database behind db_query: the tables            *)
(* VoteMatches, VoteMatchPairings, VoteMatchVotes and VoteMatchDrawOffers. *)
(* db_query is synchronous, so a handler runs atomically from one awaited  *)
(* chat call to the next; a handler is suspended only at an `await`.  The  *)
(* create, abort, join, leave and start handlers touch the store in one    *)
(* such stretch.  The vote handler touches it in several: it is modelled   *)
(* as a first action that records the vote and later actions that resume   *)
(* the suspended coroutine with the locals it read before the await.       *)
(*                                                                         *)
(* A pgn is modelled by its mainline, a sequence of moves in canonical     *)
(* SAN from the standard starting position; the rules library (chess) is   *)
(* modelled by the operators of the section "Rules".  A <match code>       *)
(* argument is a code or a text with the wildcards of LIKE (see Like).     *)
(* discord ids are numbers whose order stands for the string order of the  *)
(* ids.                                                                    *)
(***************************************************************************)
EXTENDS Integers, Sequences, FiniteSets, TLC

\* ------------------------------------------------------------------ bounds

\* Number of players (discord ids 1..NumPlayers) that send commands.
NumPlayers == 3

\* Number of match codes that create can draw.
NumMatches == 2

\* Number of players that send commands where two matches are followed.
NumLifecyclePlayers == 2

\* Votes are accepted while the mainline has fewer than MaxPly moves.
MaxPly == 2

\* Number of vote handlers that can be suspended at the same time.
MaxInFlight == 2

\* A tally with a failing statement is taken while every counter of the match
\* is below MaxVotesCast (such tallies can repeat without a new ply).
MaxVotesCast == 2

Players == 1..NumPlayers

Matches == 1..NumMatches

\* ------------------------------------------------------------ static tables

NULL == "NULL"

MatchStatuses == {"Not Started", "Aborted", "In Progress", "Abandoned", "Complete"}

MatchSides == {"Black", "White", "Both", "random"}

MatchResults ==
    {"checkmate", "resignation", "abandonment", "stalemate", "repetition",
     "mutual agreement", "50-move rule", "unknown"}

MatchTerminations == {"1-0", "0-1", "1/2-1/2", "*"}

\* hide_votes INTEGER NOT NULL DEFAULT 1; no handler ever writes the column.
HideVotes == TRUE

\* -------------------------------------------------------------------- Rules

\* The board of a match is abstracted to what the handlers ask of it.  The
\* matches are created from positions (create takes a starting FEN) in which
\* the side to move, White at ply 0, can play the pawn moves e4 and d4, the
\* king move Kb1 or the mating move Qh4#, and whose halfmove clock is 99.
\* Canonical SAN of the moves of the modelled positions.
Moves == {"e4", "d4", "Kb1", "Qh4#"}

\* The texts players type as <move>.
MoveTexts == {"e4", "e2e4", "d4", "Kb1", "Qh4", "Qh4#", "zz"}

IllegalMove == "IllegalMove"

\* board.ply() of the board after the mainline.
get_ply(pgn) == Len(pgn)

\* chess.COLOR_NAMES[board.turn], capitalized as the queries use it.
get_turn(pgn) == IF Len(pgn) % 2 = 0 THEN "White" ELSE "Black"

\* board.is_checkmate() after the mainline.
is_checkmate(pgn) == Len(pgn) > 0 /\ pgn[Len(pgn)] = "Qh4#"

\* board.is_stalemate(): no move of the modelled positions stalemates.
is_stalemate(pgn) == FALSE

\* board.is_repetition(): no position of a mainline this short occurs three
\* times.
is_repetition(pgn) == FALSE

RECURSIVE halfmove_clock(_)
\* board.halfmove_clock after the mainline: the halfmoves since the last
\* pawn move or capture.
halfmove_clock(pgn) ==
    IF pgn = << >> THEN 99
    ELSE IF pgn[Len(pgn)] \in {"e4", "d4"} THEN 0
    ELSE halfmove_clock(SubSeq(pgn, 1, Len(pgn) - 1)) + 1

\* board.is_fifty_moves(): the clock is at least 100 and a legal move exists.
is_fifty_moves(pgn) == halfmove_clock(pgn) >= 100 /\ ~ is_checkmate(pgn)

\* board.is_seventyfive_moves(): the clock is at least 150 and a legal move
\* exists.
is_seventyfive_moves(pgn) == halfmove_clock(pgn) >= 150 /\ ~ is_checkmate(pgn)

\* board.is_game_over() after the mainline, with claim_draw=False: the
\* fifty-move rule and the threefold repetition, which a player has to
\* claim, do not end the game; the seventy-five-move rule does.
is_game_over(pgn) == is_checkmate(pgn) \/ is_stalemate(pgn) \/ is_seventyfive_moves(pgn)

\* board.push_san(text): the move a SAN text denotes (check marks optional).
push_san(pgn, text) ==
    IF is_game_over(pgn) THEN IllegalMove
    ELSE CASE text = "e4" -> "e4"
           [] text = "d4" -> "d4"
           [] text = "Kb1" -> "Kb1"
           [] text = "Qh4" -> "Qh4#"
           [] text = "Qh4#" -> "Qh4#"
           [] OTHER -> IllegalMove

\* board.push_uci(text): the move a square-pair text denotes.
push_uci(pgn, text) ==
    IF is_game_over(pgn) THEN IllegalMove
    ELSE CASE text = "e2e4" -> "e4"
           [] OTHER -> IllegalMove

\* The validation without its `return` after the two ValueErrors: the text
\* that parses in neither notation is kept as the vote.
ParseMoveVote_KeepText(pgn, text) ==
    IF push_san(pgn, text) # IllegalMove THEN push_san(pgn, text)
    ELSE IF push_uci(pgn, text) # IllegalMove THEN push_uci(pgn, text)
    ELSE text

\* The validation without `move_vote = current_board.san(move)`: the vote
\* of a text that parses is the text as typed.
ParseMoveVote_AsTyped(pgn, text) ==
    IF push_san(pgn, text) # IllegalMove \/ push_uci(pgn, text) # IllegalMove
    THEN text
    ELSE IllegalMove

\* The vote handler's move validation: SAN first, then UCI, then
\* current_board.san(move).
ParseMoveVote(pgn, text) ==
    IF push_san(pgn, text) # IllegalMove THEN push_san(pgn, text)
    ELSE push_uci(pgn, text)

\* -------------------------------------------------------------------- state

VARIABLES
    VoteMatches,          \* match_code -> row of VoteMatches
    VoteMatchPairings,    \* <<match_code, discord_id>> -> row of VoteMatchPairings
    VoteMatchVotes,       \* rows of VoteMatchVotes in rowid order
    VoteMatchDrawOffers,  \* set of <<match_code, ply_count>> with voted_draw = 1
    handlers              \* the suspended vote coroutines, with their locals

vars == <<VoteMatches, VoteMatchPairings, VoteMatchVotes, VoteMatchDrawOffers, handlers>>

store == <<VoteMatches, VoteMatchPairings, VoteMatchVotes, VoteMatchDrawOffers>>

\* The database after on_ready has created the tables.
Init ==
    /\ VoteMatches = << >>
    /\ VoteMatchPairings = << >>
    /\ VoteMatchVotes = << >>
    /\ VoteMatchDrawOffers = {}
    /\ handlers = {}

\* ------------------------------------------------------------ store helpers

\* f with key k removed.
DeleteKey(f, k) == [x \in DOMAIN f \ {k} |-> f[x]]

\* f with key k set to v (inserted or replaced).
PutKey(f, k, v) == [x \in DOMAIN f \cup {k} |-> IF x = k THEN v ELSE f[x]]

\* A <match code> argument is written as a number: the code m as m, the
\* code m with one of its characters replaced by the wildcard `_` as -m, and
\* the text `%` as 0.  Like(stored, text) is the SQL `stored LIKE text`; the
\* stored value is what some command wrote into a match_code column, a code
\* or an argument.
Like(stored, text) ==
    \/ text = 0
    \/ stored = text
    \/ text < 0 /\ stored = 0 - text

\* The codes of the rows of SELECT ... FROM VoteMatches WHERE match_code LIKE m
MatchesLike(m) == {c \in DOMAIN VoteMatches : Like(c, m)}

\* The code of the one row the handler has read with match_code LIKE m.
TheMatch(m) == CHOOSE c \in MatchesLike(m) : TRUE

\* SELECT discord_id FROM VoteMatchPairings WHERE match_code LIKE m
\*   AND side IN (side, "Both")
PlayersOnSide(m, side) ==
    {p \in Players : \E k \in DOMAIN VoteMatchPairings :
                         /\ Like(k[1], m)
                         /\ k[2] = p
                         /\ VoteMatchPairings[k].side \in {side, "Both"}}

\* Indexes of the rows of VoteMatchVotes WHERE match_code LIKE m AND
\* ply_count = ply.
RowsAt(m, ply) ==
    {i \in 1..Len(VoteMatchVotes) :
        Like(VoteMatchVotes[i].match_code, m) /\ VoteMatchVotes[i].ply_count = ply}

\* Index of the row with the primary key (m, p, ply), 0 when there is none.
RowOf(m, p, ply) ==
    LET key(i) == /\ VoteMatchVotes[i].match_code = m
                  /\ VoteMatchVotes[i].discord_id = p
                  /\ VoteMatchVotes[i].ply_count = ply
    IN  IF \E i \in 1..Len(VoteMatchVotes) : key(i)
        THEN CHOOSE i \in 1..Len(VoteMatchVotes) : key(i)
        ELSE 0

\* SELECT discord_id FROM VoteMatchVotes WHERE match_code LIKE m
\*   AND ply_count = ply AND vote IS NOT NULL
PlayersVoted(m, ply) ==
    {VoteMatchVotes[i].discord_id : i \in {j \in RowsAt(m, ply) : VoteMatchVotes[j].vote # NULL}}

\* The "players still to vote" query of the vote handler.
PlayersNotVoted(m, side, ply) == PlayersOnSide(m, side) \ PlayersVoted(m, ply)

\* ----------------------------------------------------------------- create

\* Create without the loop that looks the code up, and with a REPLACE for
\* the INSERT: the row of a code in use is written anew.
Create_CodeInUse(m) ==
    /\ m =< Cardinality(DOMAIN VoteMatches) + 1
    /\ VoteMatches' = PutKey(VoteMatches, m,
           [pgn |-> << >>, status |-> "Not Started", unix_time_started |-> FALSE,
            unix_time_ended |-> FALSE, result |-> NULL, termination |-> "*"])
    /\ UNCHANGED <<VoteMatchPairings, VoteMatchVotes, VoteMatchDrawOffers, handlers>>

\* /vc create: a code no row uses, then INSERT INTO VoteMatches.  The codes
\* are random; the model writes the code of the k-th match made as k, so
\* that the number of a match is also the rowid of its row (no row of
\* VoteMatches is ever deleted).
Create(m) ==
    /\ m \notin DOMAIN VoteMatches
    /\ m = Cardinality(DOMAIN VoteMatches) + 1
    /\ VoteMatches' = PutKey(VoteMatches, m,
           [pgn |-> << >>, status |-> "Not Started", unix_time_started |-> FALSE,
            unix_time_ended |-> FALSE, result |-> NULL, termination |-> "*"])
    /\ UNCHANGED <<VoteMatchPairings, VoteMatchVotes, VoteMatchDrawOffers, handlers>>

\* ------------------------------------------------------------------ abort

\* /vc abort <match code>.  The status read is that of result[0], the row
\* with the least rowid among the rows with a code LIKE m (the SELECT scans
\* the table).  The UPDATE then writes every row with a code LIKE m.
Abort(m) ==
    IF MatchesLike(m) # {}
    THEN LET first == CHOOSE c \in MatchesLike(m) : \A d \in MatchesLike(m) : c =< d
         IN  IF VoteMatches[first].status = "Not Started"
             THEN /\ VoteMatches' = [c \in DOMAIN VoteMatches |->
                         IF Like(c, m) THEN [VoteMatches[c] EXCEPT !.status = "Aborted"]
                         ELSE VoteMatches[c]]
                  /\ UNCHANGED <<VoteMatchPairings, VoteMatchVotes, VoteMatchDrawOffers, handlers>>
             ELSE UNCHANGED vars
    ELSE UNCHANGED vars

\* ------------------------------------------------------------------- join

\* Join without the branch on match_status: the REPLACE runs whatever the
\* status of the match.
Join_AnyStatus(m, p, side) ==
    IF m \in DOMAIN VoteMatches
    THEN /\ VoteMatchPairings' = PutKey(VoteMatchPairings, <<m, p>>,
                [side |-> side, votes_cast |-> 0, top_move_votes_cast |-> 0])
         /\ UNCHANGED <<VoteMatches, VoteMatchVotes, VoteMatchDrawOffers, handlers>>
    ELSE UNCHANGED vars

\* /vc join <match code> [side]
Join(m, p, side) ==
    IF m \in DOMAIN VoteMatches /\ VoteMatches[m].status = "Not Started"
    THEN /\ VoteMatchPairings' = PutKey(VoteMatchPairings, <<m, p>>,
                [side |-> side, votes_cast |-> 0, top_move_votes_cast |-> 0])
         /\ UNCHANGED <<VoteMatches, VoteMatchVotes, VoteMatchDrawOffers, handlers>>
    ELSE UNCHANGED vars

\* ------------------------------------------------------------------ leave

\* /vc leave <match code>: the pairing is deleted whatever the match status.
Leave(m, p) ==
    IF <<m, p>> \in DOMAIN VoteMatchPairings
    THEN /\ VoteMatchPairings' = DeleteKey(VoteMatchPairings, <<m, p>>)
         /\ UNCHANGED <<VoteMatches, VoteMatchVotes, VoteMatchDrawOffers, handlers>>
    ELSE UNCHANGED vars

\* str.upper() of the texts given as <match code>.
upper(text) == IF text = "all" THEN "ALL" ELSE text

\* /vc leave all.  The argument is upper-cased before it is compared with
\* 'all', so the branch that leaves every Not Started match is not taken:
\* the text ALL is looked up as a match code, and no pairing has a code
\* LIKE 'ALL' because the codes made by create are four letters long.
LeaveAll(p) ==
    LET match_code == upper("all")
    IN  IF match_code = "all"
        THEN /\ VoteMatchPairings' =
                    [k \in {x \in DOMAIN VoteMatchPairings :
                                ~ (x[2] = p /\ VoteMatches[x[1]].status = "Not Started")}
                        |-> VoteMatchPairings[k]]
             /\ UNCHANGED <<VoteMatches, VoteMatchVotes, VoteMatchDrawOffers, handlers>>
        ELSE UNCHANGED vars

\* ------------------------------------------------------------------ start

\* The players of match m that joined with the given side.
players_by_side(m, side) ==
    {p \in Players : /\ <<m, p>> \in DOMAIN VoteMatchPairings
                     /\ VoteMatchPairings[<<m, p>>].side = side}

num_white_players(m) ==
    Cardinality(players_by_side(m, "White")) + Cardinality(players_by_side(m, "Both"))

num_black_players(m) ==
    Cardinality(players_by_side(m, "Black")) + Cardinality(players_by_side(m, "Both"))

num_random_players(m) == Cardinality(players_by_side(m, "random"))

\* EnoughPlayers as if the "not enough players" branch were missing.
EnoughPlayers_NoPairCheck(m) ==
    /\ \E p \in Players : <<m, p>> \in DOMAIN VoteMatchPairings
    /\ ~ (/\ (num_white_players(m) = 0 \/ num_black_players(m) = 0)
          /\ num_random_players(m) = 0)

\* "Make sure there are enough players"
EnoughPlayers(m) ==
    /\ \E p \in Players : <<m, p>> \in DOMAIN VoteMatchPairings
    /\ ~ (/\ (num_white_players(m) = 0 \/ num_black_players(m) = 0)
          /\ num_random_players(m) = 0)
    /\ ~ (/\ num_white_players(m) = 0
          /\ num_black_players(m) = 0
          /\ num_random_players(m) < 2)

\* future_num with math.floor for either side.
future_num_Floor(total, ceil) == total \div 2

\* future_num_white/black: (math.floor, math.ceil)[pref](num_total_players / 2)
future_num(total, ceil) == IF ceil THEN (total + 1) \div 2 ELSE total \div 2

\* num_transfer as if every random player were sent to White.
num_transfer_AllToWhite(m, rand_preference) == <<num_random_players(m), 0>>

\* num_transfer with the two branches of the negative case exchanged: every
\* random player goes to the side that has more members.
num_transfer_ToLargerSide(m, rand_preference) ==
    LET total == num_white_players(m) + num_black_players(m) + num_random_players(m)
        to_white == future_num(total, rand_preference) - num_white_players(m)
        to_black == future_num(total, ~rand_preference) - num_black_players(m)
    IN  IF to_white < 0 \/ to_black < 0
        THEN IF num_white_players(m) < num_black_players(m)
             THEN <<0, num_random_players(m)>>
             ELSE IF num_black_players(m) < num_white_players(m)
                  THEN <<num_random_players(m), 0>>
                  ELSE <<-1, -1>>
        ELSE <<to_white, to_black>>

\* <<num_transfer_to_white, num_transfer_to_black>> for a coin outcome; the
\* value <<-1, -1>> stands for the failed `assert False`.
num_transfer(m, rand_preference) ==
    LET total == num_white_players(m) + num_black_players(m) + num_random_players(m)
        to_white == future_num(total, rand_preference) - num_white_players(m)
        to_black == future_num(total, ~rand_preference) - num_black_players(m)
    IN  IF to_white < 0 \/ to_black < 0
        THEN IF num_white_players(m) < num_black_players(m)
             THEN <<num_random_players(m), 0>>
             ELSE IF num_black_players(m) < num_white_players(m)
                  THEN <<0, num_random_players(m)>>
                  ELSE <<-1, -1>>
        ELSE <<to_white, to_black>>

\* TransferRandomPlayers as if only the loop over transfer_to_white ran.
TransferRandomPlayers_WhiteOnly(m, transfer_to_white) ==
    [k \in DOMAIN VoteMatchPairings |->
        IF k[1] = m /\ k[2] \in transfer_to_white
        THEN [VoteMatchPairings[k] EXCEPT !.side = "White"]
        ELSE VoteMatchPairings[k]]

\* The pairings after the random players in transfer_to_white became "White"
\* and the other random players "Black".
TransferRandomPlayers(m, transfer_to_white) ==
    [k \in DOMAIN VoteMatchPairings |->
        IF k[1] = m /\ VoteMatchPairings[k].side = "random"
        THEN [VoteMatchPairings[k] EXCEPT
                 !.side = IF k[2] \in transfer_to_white THEN "White" ELSE "Black"]
        ELSE VoteMatchPairings[k]]

\* /vc start <match code>
Start(m) ==
    IF m \in DOMAIN VoteMatches /\ VoteMatches[m].status = "Not Started" /\ EnoughPlayers(m)
    THEN \E rand_preference \in BOOLEAN :
           LET n == num_transfer(m, rand_preference)
               random_players == players_by_side(m, "random")
           IN  IF random_players = {}
               THEN /\ VoteMatches' = [VoteMatches EXCEPT ![m].status = "In Progress",
                                                          ![m].unix_time_started = TRUE]
                    /\ UNCHANGED <<VoteMatchPairings, VoteMatchVotes, VoteMatchDrawOffers, handlers>>
               ELSE IF \/ n[1] < 0
                       \/ n[1] > Cardinality(random_players)
                       \/ Cardinality(random_players) - n[1] # n[2]
                    THEN \* AssertionError, or ValueError of random.sample
                         UNCHANGED vars
                    ELSE \E transfer_to_white \in SUBSET random_players :
                           /\ Cardinality(transfer_to_white) = n[1]
                           /\ VoteMatchPairings' = TransferRandomPlayers(m, transfer_to_white)
                           /\ VoteMatches' = [VoteMatches EXCEPT ![m].status = "In Progress",
                                                                 ![m].unix_time_started = TRUE]
                           /\ UNCHANGED <<VoteMatchVotes, VoteMatchDrawOffers, handlers>>
    ELSE UNCHANGED vars

\* ------------------------------------------------------------------- tally

\* SELECT ... FROM VoteMatchVotes WHERE match_code LIKE m AND ply_count = ply,
\* in rowid order.
VotesAt(m, ply) ==
    SelectSeq(VoteMatchVotes, LAMBDA r : Like(r.match_code, m) /\ r.ply_count = ply)

\* players_by_vote[r.vote].append(r.discord_id): groups is the dict as a
\* sequence of <<vote, players>> in the order the keys were inserted.
AddVote(groups, r) ==
    IF \E i \in 1..Len(groups) : groups[i][1] = r.vote
    THEN [i \in 1..Len(groups) |->
            IF groups[i][1] = r.vote
            THEN <<groups[i][1], Append(groups[i][2], r.discord_id)>>
            ELSE groups[i]]
    ELSE Append(groups, <<r.vote, <<r.discord_id>>>>)

RECURSIVE players_by_vote(_)
\* "Group players by the moves they voted on"
players_by_vote(rows) ==
    IF rows = << >> THEN << >>
    ELSE LET r == rows[Len(rows)]
             rest == players_by_vote(SubSeq(rows, 1, Len(rows) - 1))
         IN  IF r.vote = NULL THEN rest ELSE AddVote(rest, r)

\* g put into a sequence sorted by descending group size, after the groups
\* that are at least as large (sorted() is stable).
InsertByLen(sorted, g) ==
    LET k == Cardinality({i \in 1..Len(sorted) : Len(sorted[i][2]) >= Len(g[2])})
    IN  SubSeq(sorted, 1, k) \o <<g>> \o SubSeq(sorted, k + 1, Len(sorted))

RECURSIVE vote_counts(_)
\* sorted(players_by_vote.items(), key=lambda e: len(e[1]), reverse=True)
vote_counts(groups) ==
    IF groups = << >> THEN << >>
    ELSE InsertByLen(vote_counts(SubSeq(groups, 1, Len(groups) - 1)), groups[Len(groups)])

RECURSIVE ListGreater(_, _)
\* a > b for two Python lists of discord ids.
ListGreater(a, b) ==
    IF a = << >> THEN FALSE
    ELSE IF b = << >> THEN TRUE
    ELSE IF a[1] # b[1] THEN a[1] > b[1]
    ELSE ListGreater(Tail(a), Tail(b))

\* len(vote_counts) == 1 or vote_counts[0][1] > vote_counts[1][1]
TopMoveWins(vc) == Len(vc) = 1 \/ ListGreater(vc[1][2], vc[2][2])

\* The counter updates with the subquery of the first lacking `AND vote = ?`:
\* every voter of the ply is credited with the top move.
IncrementCounters_EveryVoter(m, ply, top_voted_move_san) ==
    [k \in DOMAIN VoteMatchPairings |->
        IF Like(k[1], m) /\ k[2] \in PlayersVoted(m, ply)
        THEN [VoteMatchPairings[k] EXCEPT !.top_move_votes_cast = @ + 1,
                                          !.votes_cast = @ + 1]
        ELSE VoteMatchPairings[k]]

\* The two counter updates of a winning tally.
IncrementCounters(m, ply, top_voted_move_san) ==
    [k \in DOMAIN VoteMatchPairings |->
        IF Like(k[1], m)
        THEN [VoteMatchPairings[k] EXCEPT
                 !.top_move_votes_cast =
                     IF \E i \in RowsAt(m, ply) :
                            /\ VoteMatchVotes[i].discord_id = k[2]
                            /\ VoteMatchVotes[i].vote = top_voted_move_san
                     THEN @ + 1 ELSE @,
                 !.votes_cast = IF k[2] \in PlayersVoted(m, ply) THEN @ + 1 ELSE @]
        ELSE VoteMatchPairings[k]]

\* The UPDATE VoteMatches of a finished game: the statement has no WHERE
\* clause, so it writes every row of the table.
GameOverUpdate(matches, result, termination) ==
    [c \in DOMAIN matches |->
        [matches[c] EXCEPT !.status = "Complete", !.result = result,
                           !.termination = termination, !.unix_time_ended = TRUE]]

\* "Handle current_board being in checkmate/stalemate etc.": the table
\* VoteMatches after the status statement, if the game is over.
EndMatch(game) ==
    IF is_game_over(game)
    THEN CASE is_checkmate(game) ->
                  GameOverUpdate(VoteMatches, "checkmate",
                      IF get_turn(game) = "White" THEN "0-1" ELSE "1-0")
           [] ~ is_checkmate(game) /\ is_stalemate(game) ->
                  GameOverUpdate(VoteMatches, "stalemate", "1/2-1/2")
           [] ~ is_checkmate(game) /\ ~ is_stalemate(game) /\ is_repetition(game) ->
                  GameOverUpdate(VoteMatches, "repetition", "1/2-1/2")
           [] /\ ~ is_checkmate(game) /\ ~ is_stalemate(game) /\ ~ is_repetition(game)
              /\ is_fifty_moves(game) ->
                  GameOverUpdate(VoteMatches, "50-move rule", "1/2-1/2")
           [] OTHER -> GameOverUpdate(VoteMatches, "unknown", "*")
    ELSE VoteMatches

\* The status statement, then UPDATE VoteMatches SET pgn = ... WHERE
\* match_code LIKE m.
ApplyTopMove(m, pgn, top_voted_move_san) ==
    LET game == Append(pgn, top_voted_move_san)
    IN  [c \in DOMAIN VoteMatches |->
            IF Like(c, m) THEN [EndMatch(game)[c] EXCEPT !.pgn = game]
            ELSE EndMatch(game)[c]]

\* ---------------------------------------------------------- vote: a move

\* A suspended vote coroutine: where it waits and the locals it keeps.
Handler(kind, pc, m, p, pgn, move_vote) ==
    [kind |-> kind, pc |-> pc, match_code |-> m, discord_id |-> p,
     pgn |-> pgn, move_vote |-> move_vote]

\* MayVote as if the side query did not ask for the side to move.
MayVote_AnySide(m, p) ==
    /\ Cardinality(MatchesLike(m)) = 1
    /\ VoteMatches[TheMatch(m)].status = "In Progress"
    /\ p \in PlayersOnSide(m, "White") \cup PlayersOnSide(m, "Black")

\* The caller may vote: one match has a code LIKE m, it is In Progress and
\* the caller is paired with the side to move or with Both.
MayVote(m, p) ==
    /\ Cardinality(MatchesLike(m)) = 1
    /\ VoteMatches[TheMatch(m)].status = "In Progress"
    /\ p \in PlayersOnSide(m, get_turn(VoteMatches[TheMatch(m)].pgn))

\* INSERT INTO VoteMatchVotes(match_code, discord_id, ply_count, vote), and
\* the UPDATE of the vote when the key exists (exit code 2).
CastVote(m, p, ply, move_vote) ==
    IF RowOf(m, p, ply) = 0
    THEN Append(VoteMatchVotes,
             [match_code |-> m, discord_id |-> p, ply_count |-> ply,
              vote |-> move_vote, voted_resign |-> FALSE, voted_draw |-> FALSE])
    ELSE [i \in 1..Len(VoteMatchVotes) |->
             IF i \in RowsAt(m, ply) /\ VoteMatchVotes[i].discord_id = p
             THEN [VoteMatchVotes[i] EXCEPT !.vote = move_vote]
             ELSE VoteMatchVotes[i]]

\* /vc vote <move> <match code>, up to `await ctx.message.delete()`.
VoteMove(m, p, text) ==
    IF /\ MayVote(m, p)
       /\ get_ply(VoteMatches[TheMatch(m)].pgn) < MaxPly
       /\ ParseMoveVote(VoteMatches[TheMatch(m)].pgn, text) # IllegalMove
       /\ p \notin PlayersVoted(m, get_ply(VoteMatches[TheMatch(m)].pgn))
    THEN LET pgn == VoteMatches[TheMatch(m)].pgn
             move_vote == ParseMoveVote(pgn, text)
         IN  /\ Cardinality(handlers) < MaxInFlight
             /\ VoteMatchVotes' = CastVote(m, p, get_ply(pgn), move_vote)
             /\ handlers' = handlers \cup {Handler("move", "delete", m, p, pgn, move_vote)}
             /\ UNCHANGED <<VoteMatches, VoteMatchPairings, VoteMatchDrawOffers>>
    ELSE UNCHANGED vars

\* The vote coroutine resumes after the delete: it reads who has still to
\* vote and sends the embed.  With all_players_voted it waits for the send
\* and tallies; without, nothing follows the send and the coroutine is over.
AfterDelete(h) ==
    /\ h \in handlers
    /\ h.pc = "delete"
    /\ LET all_players_voted ==
               PlayersNotVoted(h.match_code, get_turn(h.pgn), get_ply(h.pgn)) = {}
       IN  handlers' = IF all_players_voted
                       THEN (handlers \ {h}) \cup {[h EXCEPT !.pc = "tally"]}
                       ELSE handlers \ {h}
    /\ UNCHANGED store

\* The vote coroutine resumes after the send with all_players_voted: tally.
Tally(h) ==
    /\ h \in handlers
    /\ h.pc = "tally"
    /\ handlers' = handlers \ {h}
    /\ LET m == h.match_code
           ply == get_ply(h.pgn)
           vc == vote_counts(players_by_vote(VotesAt(m, ply)))
       IN  IF vc = << >>
           THEN \* no rows ("integrity error"), or no group (IndexError)
                UNCHANGED store
           ELSE IF TopMoveWins(vc)
                THEN /\ VoteMatchPairings' = IncrementCounters(m, ply, vc[1][1])
                     /\ VoteMatches' = ApplyTopMove(m, h.pgn, vc[1][1])
                     /\ UNCHANGED <<VoteMatchVotes, VoteMatchDrawOffers>>
                ELSE /\ VoteMatchVotes' = SelectSeq(VoteMatchVotes,
                            LAMBDA r : ~ (Like(r.match_code, m) /\ r.ply_count = ply))
                     /\ UNCHANGED <<VoteMatches, VoteMatchPairings, VoteMatchDrawOffers>>

\* The statements of a winning tally that write, in the order they run.
TallyStatements == {"top_move_votes_cast", "votes_cast", "status", "pgn"}

\* The first counter update of a winning tally alone.
IncrementTopMoveVotesCast(m, ply, top_voted_move_san) ==
    [k \in DOMAIN VoteMatchPairings |->
        IF /\ Like(k[1], m)
           /\ \E i \in RowsAt(m, ply) :
                  /\ VoteMatchVotes[i].discord_id = k[2]
                  /\ VoteMatchVotes[i].vote = top_voted_move_san
        THEN [VoteMatchPairings[k] EXCEPT !.top_move_votes_cast = @ + 1]
        ELSE VoteMatchPairings[k]]

\* A winning tally in which db_query returns an exit code other than 0 for
\* the statement `failed`: every statement before it is committed, the
\* coroutine sends "There was a database error :(" and returns.
TallyFailing(h, failed) ==
    /\ h \in handlers
    /\ h.pc = "tally"
    /\ \A k \in DOMAIN VoteMatchPairings :
           Like(k[1], h.match_code)
           => /\ VoteMatchPairings[k].votes_cast < MaxVotesCast
              /\ VoteMatchPairings[k].top_move_votes_cast < MaxVotesCast
    /\ handlers' = handlers \ {h}
    /\ LET m == h.match_code
           ply == get_ply(h.pgn)
           vc == vote_counts(players_by_vote(VotesAt(m, ply)))
           winning == IF vc = << >> THEN FALSE ELSE TopMoveWins(vc)
       IN  IF winning /\ (failed = "status" => is_game_over(Append(h.pgn, vc[1][1])))
           THEN /\ VoteMatchPairings' =
                       CASE failed = "top_move_votes_cast" -> VoteMatchPairings
                         [] failed = "votes_cast" -> IncrementTopMoveVotesCast(m, ply, vc[1][1])
                         [] OTHER -> IncrementCounters(m, ply, vc[1][1])
                /\ VoteMatches' =
                       IF failed = "pgn" THEN EndMatch(Append(h.pgn, vc[1][1])) ELSE VoteMatches
                /\ UNCHANGED <<VoteMatchVotes, VoteMatchDrawOffers>>
           ELSE FALSE

\* ------------------------------------------------- vote: resign and draw

\* Row i of VoteMatchVotes holds the flag voted_<flag>.
HasFlag(i, flag) ==
    IF flag = "resign" THEN VoteMatchVotes[i].voted_resign ELSE VoteMatchVotes[i].voted_draw

\* Indexes of the rows of player p WHERE match_code LIKE m AND ply_count = ply.
RowsOf(m, p, ply) == {i \in RowsAt(m, ply) : VoteMatchVotes[i].discord_id = p}

\* INSERT a row with vote = NULL and the flag when the player has no row
\* with a code LIKE m at the ply, or UPDATE the flag of the rows it has.
CastFlag(m, p, ply, flag) ==
    IF RowsOf(m, p, ply) = {}
    THEN Append(VoteMatchVotes,
             [match_code |-> m, discord_id |-> p, ply_count |-> ply, vote |-> NULL,
              voted_resign |-> (flag = "resign"), voted_draw |-> (flag = "draw")])
    ELSE [i \in 1..Len(VoteMatchVotes) |->
             IF i \notin RowsOf(m, p, ply) THEN VoteMatchVotes[i]
             ELSE IF flag = "resign"
                  THEN [VoteMatchVotes[i] EXCEPT !.voted_resign = TRUE]
                  ELSE [VoteMatchVotes[i] EXCEPT !.voted_draw = TRUE]]

\* /vc vote resign|draw <match code>, up to the send of the embed.  When
\* `assert not all_players_voted` fails the coroutine ends with the flag
\* recorded.
VoteResignOrDraw(m, p, flag) ==
    IF /\ MayVote(m, p)
       /\ get_ply(VoteMatches[TheMatch(m)].pgn) < MaxPly
       /\ ~ \E i \in RowsOf(m, p, get_ply(VoteMatches[TheMatch(m)].pgn)) : HasFlag(i, flag)
    THEN LET pgn == VoteMatches[TheMatch(m)].pgn
         IN  /\ Cardinality(handlers) < MaxInFlight
             /\ VoteMatchVotes' = CastFlag(m, p, get_ply(pgn), flag)
             /\ handlers' = IF PlayersNotVoted(m, get_turn(pgn), get_ply(pgn)) = {}
                            THEN handlers
                            ELSE handlers \cup {Handler(flag, "majority", m, p, pgn, flag)}
             /\ UNCHANGED <<VoteMatches, VoteMatchPairings, VoteMatchDrawOffers>>
    ELSE UNCHANGED vars

\* num_players_on_side // 2 + 1
num_votes_for_majority(num_players_on_side) == num_players_on_side \div 2 + 1

\* SELECT discord_id FROM VoteMatchPairings ... AND discord_id IN (SELECT
\* discord_id FROM VoteMatchVotes WHERE ... voted_<flag> = 1 AND ply_count = ply)
PlayersFlagged(m, side, ply, flag) ==
    {p \in PlayersOnSide(m, side) :
        \E i \in RowsAt(m, ply) : VoteMatchVotes[i].discord_id = p /\ HasFlag(i, flag)}

\* "Check whether majority has voted to draw/resign this ply", with the pgn,
\* ply and side the coroutine read before the send.
Majority(h) ==
    /\ h \in handlers
    /\ h.pc = "majority"
    /\ handlers' = handlers \ {h}
    /\ LET m == h.match_code
           ply == get_ply(h.pgn)
           side == get_turn(h.pgn)
           num_players_voted == Cardinality(PlayersFlagged(m, side, ply, h.kind))
           is_majority ==
               /\ PlayersOnSide(m, side) # {}
               /\ num_players_voted # 0
               /\ num_players_voted >= num_votes_for_majority(Cardinality(PlayersOnSide(m, side)))
       IN  IF ~is_majority
           THEN UNCHANGED store
           ELSE IF h.kind = "draw"
                THEN /\ VoteMatchDrawOffers' = VoteMatchDrawOffers \cup {<<m, ply>>}
                     /\ VoteMatches' =
                            IF \E o \in VoteMatchDrawOffers : Like(o[1], m) /\ o[2] = ply - 1
                            THEN [c \in DOMAIN VoteMatches |->
                                    IF Like(c, m)
                                    THEN [VoteMatches[c] EXCEPT
                                             !.status = "Complete",
                                             !.result = "mutual agreement",
                                             !.termination = "1/2-1/2",
                                             !.unix_time_ended = TRUE,
                                             !.pgn = h.pgn]
                                    ELSE VoteMatches[c]]
                            ELSE VoteMatches
                     /\ UNCHANGED <<VoteMatchPairings, VoteMatchVotes>>
                ELSE /\ VoteMatches' =
                            [c \in DOMAIN VoteMatches |->
                                IF Like(c, m)
                                THEN [VoteMatches[c] EXCEPT
                                         !.status = "Complete",
                                         !.result = "resignation",
                                         !.termination = IF side = "White" THEN "0-1" ELSE "1-0",
                                         !.unix_time_ended = TRUE,
                                         !.pgn = h.pgn]
                                ELSE VoteMatches[c]]
                     /\ UNCHANGED <<VoteMatchPairings, VoteMatchVotes, VoteMatchDrawOffers>>

\* ---------------------------------------------------------- specifications

\* Lifecycle of two matches, few players.  Match 1 is joined with every
\* side and voted on with a mating move; on match 2 the players join with
\* the short form `/vc join <match code>` (side random) and do not vote.
LifecyclePlayers == 1..NumLifecyclePlayers

LifecycleJoins ==
    {<<1, p, side>> : p \in LifecyclePlayers, side \in MatchSides}
        \cup {<<m, p, "random">> : m \in Matches, p \in LifecyclePlayers}

LifecycleTexts == {"Qh4"}

Next ==
    \/ \E m \in Matches : Create(m)
    \/ \E m \in Matches : Abort(m)
    \/ \E j \in LifecycleJoins : Join(j[1], j[2], j[3])
    \/ \E m \in Matches, p \in LifecyclePlayers : Leave(m, p)
    \/ \E m \in Matches : Start(m)
    \/ \E p \in LifecyclePlayers, text \in LifecycleTexts : VoteMove(1, p, text)
    \/ \E h \in handlers : AfterDelete(h)
    \/ \E h \in handlers : Tally(h)

Spec == Init /\ [][Next]_vars

\* Voting rounds of one match: every player votes for White, player 1 also
\* for Black.
TallyJoins == {<<p, "White">> : p \in Players} \cup {<<1, "Both">>}

TallyTexts == {"e4", "e2e4", "d4", "zz"}

NextTally ==
    \/ Create(1)
    \/ \E j \in TallyJoins : Join(1, j[1], j[2])
    \/ Start(1)
    \/ \E p \in Players, text \in TallyTexts : VoteMove(1, p, text)
    \/ \E h \in handlers : AfterDelete(h)
    \/ \E h \in handlers : Tally(h)

SpecTally == Init /\ [][NextTally]_vars

\* Resign and draw votes of one match, next to votes for one move.
FlagTexts == {"e4"}

NextFlags ==
    \/ Create(1)
    \/ \E j \in TallyJoins : Join(1, j[1], j[2])
    \/ Start(1)
    \/ \E p \in Players, text \in FlagTexts : VoteMove(1, p, text)
    \/ \E p \in Players, flag \in {"resign", "draw"} : VoteResignOrDraw(1, p, flag)
    \/ \E h \in handlers : AfterDelete(h)
    \/ \E h \in handlers : Tally(h)
    \/ \E h \in handlers : Majority(h)

SpecFlags == Init /\ [][NextFlags]_vars

\* Every way a match ends: match 1 is played by few players with move,
\* resign and draw votes; match 2 is created and aborted next to it.
EndJoins == {<<1, "Both">>} \cup {<<p, "White">> : p \in LifecyclePlayers \ {1}}

EndTexts == {"e4", "Qh4"}

NextEnd ==
    \/ \E m \in Matches : Create(m)
    \/ Abort(2)
    \/ \E j \in EndJoins : Join(1, j[1], j[2])
    \/ Start(1)
    \/ \E p \in LifecyclePlayers, text \in EndTexts : VoteMove(1, p, text)
    \/ \E p \in LifecyclePlayers, flag \in {"resign", "draw"} : VoteResignOrDraw(1, p, flag)
    \/ \E h \in handlers : AfterDelete(h)
    \/ \E h \in handlers : Tally(h)
    \/ \E h \in handlers : Majority(h)

SpecEnd == Init /\ [][NextEnd]_vars

\* Voting rounds of one match whose players also leave it: move votes for
\* two moves and resign votes, by few players.
LeaveJoins == {<<1, "Both">>} \cup {<<p, "White">> : p \in LifecyclePlayers}

LeaveTexts == {"e4", "d4"}

NextLeave ==
    \/ Create(1)
    \/ \E j \in LeaveJoins : Join(1, j[1], j[2])
    \/ Start(1)
    \/ \E p \in LifecyclePlayers : Leave(1, p)
    \/ \E p \in LifecyclePlayers, text \in LeaveTexts : VoteMove(1, p, text)
    \/ \E p \in LifecyclePlayers : VoteResignOrDraw(1, p, "resign")
    \/ \E h \in handlers : AfterDelete(h)
    \/ \E h \in handlers : Tally(h)
    \/ \E h \in handlers : Majority(h)

SpecLeave == Init /\ [][NextLeave]_vars

\* Forming the teams of one match: every player joins with every side,
\* leaves, and the match is started or aborted.
StartJoins == {<<p, side>> : p \in Players, side \in MatchSides}

NextStart ==
    \/ Create(1)
    \/ Abort(1)
    \/ \E j \in StartJoins : Join(1, j[1], j[2])
    \/ \E p \in Players : Leave(1, p)
    \/ \E p \in Players : LeaveAll(p)
    \/ Start(1)

SpecStart == Init /\ [][NextStart]_vars

\* Voting rounds of one match in which a statement of the tally can fail.
FailJoins == {<<1, "Both">>} \cup {<<p, "White">> : p \in LifecyclePlayers \ {1}}

FailTexts == {"e4", "Qh4"}

NextFail ==
    \/ Create(1)
    \/ \E j \in FailJoins : Join(1, j[1], j[2])
    \/ Start(1)
    \/ \E p \in LifecyclePlayers, text \in FailTexts : VoteMove(1, p, text)
    \/ \E h \in handlers : AfterDelete(h)
    \/ \E h \in handlers : Tally(h)
    \/ \E h \in handlers, failed \in TallyStatements : TallyFailing(h, failed)

SpecFail == Init /\ [][NextFail]_vars

\* Two matches joined by player 1 alone, with <match code> arguments that
\* hold the wildcards of LIKE: the codes, the codes with a `_`, and `%`.
\* Player 1 votes for moves on match 1 and resigns either match.
MatchCodeTexts == (0 - NumMatches)..NumMatches

\* The votes are on match 1, by its code or by its code with a `_`.
LikeVoteCodes == {1, 0 - 1}

LikeMoveTexts == {"e4", "Qh4"}

NextLike ==
    \/ \E m \in Matches : Create(m)
    \/ \E m \in Matches : Join(m, 1, "Both")
    \/ \E m \in Matches : Start(m)
    \/ \E m \in MatchCodeTexts : Abort(m)
    \/ \E m \in LikeVoteCodes, text \in LikeMoveTexts : VoteMove(m, 1, text)
    \/ \E m \in LikeVoteCodes \cup {2} : VoteResignOrDraw(m, 1, "resign")
    \/ \E h \in handlers : AfterDelete(h)
    \/ \E h \in handlers : Tally(h)
    \/ \E h \in handlers : Majority(h)

SpecLike == Init /\ [][NextLike]_vars

\* Voting rounds of one match whose moves include the king move that brings
\* the halfmove clock to 100.
RulesJoins == {<<1, "Both">>, <<2, "White">>}

RulesTexts == {"e4", "Kb1", "Qh4"}

NextRules ==
    \/ Create(1)
    \/ \E j \in RulesJoins : Join(1, j[1], j[2])
    \/ Start(1)
    \/ \E p \in LifecyclePlayers, text \in RulesTexts : VoteMove(1, p, text)
    \/ \E h \in handlers : AfterDelete(h)
    \/ \E h \in handlers : Tally(h)

SpecRules == Init /\ [][NextRules]_vars

\* ------------------------------------------------------------------ claims

\* Number of rows of (match, ply) that vote for the move.
VoteCount(m, ply, move) ==
    Cardinality({i \in RowsAt(m, ply) : VoteMatchVotes[i].vote = move})

\* The move has strictly more votes at (match, ply) than every other move.
StrictTop(m, ply, move) ==
    \A other \in Moves \ {move} : VoteCount(m, ply, move) > VoteCount(m, ply, other)

\* The two largest groups of votes at (match, ply) have the same size.
TopTie(m, ply) ==
    \E a, b \in Moves :
        /\ a # b
        /\ VoteCount(m, ply, a) > 0
        /\ VoteCount(m, ply, a) = VoteCount(m, ply, b)
        /\ \A c \in Moves : VoteCount(m, ply, c) =< VoteCount(m, ply, a)

\* In this step the suspended coroutine h runs its tally.
TallyStep(h) == h \in handlers /\ h.pc = "tally" /\ handlers' = handlers \ {h}

\* C1: a completed round is tallied once: whenever a step increments a
\* participation counter of a pairing, the same step advances the ply of its
\* match by exactly 1 (a second tally of the round would increment the
\* counters of its voters again without a new ply).
C1_TallyOnce ==
    [][\A k \in DOMAIN VoteMatchPairings \cap DOMAIN VoteMatchPairings' :
          (\/ VoteMatchPairings'[k].votes_cast > VoteMatchPairings[k].votes_cast
           \/ VoteMatchPairings'[k].top_move_votes_cast > VoteMatchPairings[k].top_move_votes_cast)
          => get_ply(VoteMatches'[k[1]].pgn) = get_ply(VoteMatches[k[1]].pgn) + 1]_vars

\* C2: when a round is tallied and one candidate has strictly more votes than
\* every other candidate, that candidate is appended to the mainline.
C2_StrictTopWins ==
    [][\A h \in handlers : \A move \in Moves :
          (/\ TallyStep(h)
           /\ VoteMatches[h.match_code].pgn = h.pgn
           /\ StrictTop(h.match_code, get_ply(h.pgn), move))
          => VoteMatches'[h.match_code].pgn = Append(h.pgn, move)]_vars

\* C3: when a round is tallied and the two largest groups have the same size,
\* no move is applied, the match row is unchanged and every row of that
\* match and ply is deleted.
C3_TieVoids ==
    [][\A h \in handlers :
          (TallyStep(h) /\ TopTie(h.match_code, get_ply(h.pgn)))
          => /\ VoteMatches' = VoteMatches
             /\ \A i \in 1..Len(VoteMatchVotes') :
                    ~ (/\ VoteMatchVotes'[i].match_code = h.match_code
                       /\ VoteMatchVotes'[i].ply_count = get_ply(h.pgn))]_vars

\* C4: once the status of a match is Aborted, Abandoned or Complete, no step
\* changes it.
C4_TerminalStays ==
    [][\A m \in DOMAIN VoteMatches :
          VoteMatches[m].status \in {"Aborted", "Abandoned", "Complete"}
          => VoteMatches'[m].status = VoteMatches[m].status]_vars

\* Everything the store holds about match m.
MatchData(m) ==
    <<IF m \in DOMAIN VoteMatches THEN <<VoteMatches[m]>> ELSE << >>,
      [p \in {q \in Players : <<m, q>> \in DOMAIN VoteMatchPairings} |-> VoteMatchPairings[<<m, p>>]],
      SelectSeq(VoteMatchVotes, LAMBDA r : r.match_code = m),
      {o \in VoteMatchDrawOffers : o[1] = m}>>

\* C5: a step changes the status, result, termination, end time, mainline,
\* pairings, votes and draw offers of at most one match.
C5_OneMatchPerStep ==
    [][\A m1, m2 \in Matches :
          (m1 # m2 /\ MatchData(m1)' # MatchData(m1)) => MatchData(m2)' = MatchData(m2)]_vars

\* C6: in every state and for every match, the status is Complete if and only
\* if the result and the end time are set, and the termination differs from
\* its default "*" only when the status is Complete.
C6_CompleteIffResult ==
    \A m \in DOMAIN VoteMatches :
        /\ VoteMatches[m].status = "Complete"
               <=> (VoteMatches[m].result # NULL /\ VoteMatches[m].unix_time_ended)
        /\ VoteMatches[m].termination # "*" => VoteMatches[m].status = "Complete"

\* C10: no pairing of a match that is In Progress has the side random.
C10_NoRandomInProgress ==
    \A k \in DOMAIN VoteMatchPairings :
        VoteMatches[k[1]].status = "In Progress" => VoteMatchPairings[k].side # "random"

\* Match 2, joined only as random, is In Progress with both of its players
\* moved to a side.
C10_Witness ==
    /\ 2 \in DOMAIN VoteMatches
    /\ VoteMatches[2].status = "In Progress"
    /\ \E p, q \in Players :
          /\ <<2, p>> \in DOMAIN VoteMatchPairings
          /\ <<2, q>> \in DOMAIN VoteMatchPairings
          /\ VoteMatchPairings[<<2, p>>].side = "White"
          /\ VoteMatchPairings[<<2, q>>].side = "Black"

\* Player p holds the flag voted_<flag> in the row of (match, ply).
HoldsFlag(m, p, ply, flag) ==
    \E i \in RowsAt(m, ply) : VoteMatchVotes[i].discord_id = p /\ HasFlag(i, flag)

\* The side to move at a ply.
SideAt(ply) == IF ply % 2 = 0 THEN "White" ELSE "Black"

\* At least floor(n/2)+1 of the n eligible voters of the side to move at the
\* ply hold the flag at that ply.
FlagMajority(m, ply, flag) ==
    Cardinality({p \in PlayersOnSide(m, SideAt(ply)) : HoldsFlag(m, p, ply, flag)})
        >= Cardinality(PlayersOnSide(m, SideAt(ply))) \div 2 + 1

\* In this step the flag of player p is recorded at ply, the current ply of
\* m, and completes a majority there.
CompletesMajority(m, p, ply, flag) ==
    /\ ply = get_ply(VoteMatches[m].pgn)
    /\ ~ HoldsFlag(m, p, ply, flag)
    /\ HoldsFlag(m, p, ply, flag)'
    /\ FlagMajority(m, ply, flag)'

\* After this step the coroutine of p's flag vote goes on to the majority check.
GoesOnToMajority(m, p, flag) ==
    \E h \in handlers' :
        h.kind = flag /\ h.pc = "majority" /\ h.match_code = m /\ h.discord_id = p

\* In this step the suspended coroutine h runs its majority check.
MajorityStep(h) == h \in handlers /\ h.pc = "majority" /\ handlers' = handlers \ {h}

\* C7: a resign vote ends the match exactly when, after it is recorded, at
\* least floor(n/2)+1 of the n eligible voters hold a resign flag at the
\* current ply: the vote that completes the majority goes on to the majority
\* check, and the check makes the match Complete by resignation, won by the
\* other side, if the majority holds and leaves the match row alone if not.
C7_ResignAtMajority ==
    [][/\ \A m \in DOMAIN VoteMatches : \A p \in Players : \A ply \in 0..MaxPly :
             CompletesMajority(m, p, ply, "resign") => GoesOnToMajority(m, p, "resign")
       /\ \A h \in handlers :
             (/\ MajorityStep(h)
              /\ h.kind = "resign"
              /\ VoteMatches[h.match_code].pgn = h.pgn
              /\ VoteMatches[h.match_code].status = "In Progress")
             => IF FlagMajority(h.match_code, get_ply(h.pgn), "resign")
                THEN /\ VoteMatches'[h.match_code].status = "Complete"
                     /\ VoteMatches'[h.match_code].result = "resignation"
                     /\ VoteMatches'[h.match_code].termination =
                            IF SideAt(get_ply(h.pgn)) = "White" THEN "0-1" ELSE "1-0"
                ELSE VoteMatches' = VoteMatches]_vars

\* C8: when a majority holds draw flags at ply P and no marker exists for
\* P-1, a marker is recorded for (match, P): the vote that completes the
\* majority goes on to the majority check, and the check records the marker
\* and leaves the match row and the votes unchanged.
C8_DrawOffered ==
    [][/\ \A m \in DOMAIN VoteMatches : \A p \in Players : \A ply \in 0..MaxPly :
             (/\ CompletesMajority(m, p, ply, "draw")
              /\ <<m, ply - 1>> \notin VoteMatchDrawOffers)
             => GoesOnToMajority(m, p, "draw")
       /\ \A h \in handlers :
             (/\ MajorityStep(h)
              /\ h.kind = "draw"
              /\ FlagMajority(h.match_code, get_ply(h.pgn), "draw")
              /\ <<h.match_code, get_ply(h.pgn) - 1>> \notin VoteMatchDrawOffers)
             => /\ <<h.match_code, get_ply(h.pgn)>> \in VoteMatchDrawOffers'
                /\ VoteMatches' = VoteMatches
                /\ VoteMatchVotes' = VoteMatchVotes]_vars

\* C9: a match gets the result mutual agreement exactly when a draw majority
\* is reached at ply P and a marker exists for P-1: only the majority check
\* of a draw vote with both sets that result, and a draw vote that completes
\* the majority with the marker of P-1 present goes on to that check, which
\* makes the match Complete, drawn by mutual agreement.
C9_DrawAccepted ==
    [][/\ \A m \in DOMAIN VoteMatches :
             (/\ VoteMatches'[m].result = "mutual agreement"
              /\ VoteMatches[m].result # "mutual agreement")
             => \E h \in handlers :
                    /\ MajorityStep(h)
                    /\ h.kind = "draw"
                    /\ h.match_code = m
                    /\ FlagMajority(m, get_ply(h.pgn), "draw")
                    /\ <<m, get_ply(h.pgn) - 1>> \in VoteMatchDrawOffers
       /\ \A m \in DOMAIN VoteMatches : \A p \in Players : \A ply \in 0..MaxPly :
             (/\ CompletesMajority(m, p, ply, "draw")
              /\ <<m, ply - 1>> \in VoteMatchDrawOffers)
             => GoesOnToMajority(m, p, "draw")
       /\ \A h \in handlers :
             (/\ MajorityStep(h)
              /\ h.kind = "draw"
              /\ FlagMajority(h.match_code, get_ply(h.pgn), "draw")
              /\ <<h.match_code, get_ply(h.pgn) - 1>> \in VoteMatchDrawOffers)
             => /\ VoteMatches'[h.match_code].status = "Complete"
                /\ VoteMatches'[h.match_code].result = "mutual agreement"
                /\ VoteMatches'[h.match_code].termination = "1/2-1/2"]_vars

\* This step is a successful start of match m.
StartStep(m) ==
    /\ m \in DOMAIN VoteMatches
    /\ VoteMatches[m].status = "Not Started"
    /\ VoteMatches'[m].status = "In Progress"

\* Number of White-eligible (White or Both) players of match m.
NumWhiteEligible(m) == Cardinality(PlayersOnSide(m, "White"))

\* Number of Black-eligible (Black or Both) players of match m.
NumBlackEligible(m) == Cardinality(PlayersOnSide(m, "Black"))

\* Difference of the two eligible counts of match m.
SideDifference(m) ==
    IF NumWhiteEligible(m) >= NumBlackEligible(m)
    THEN NumWhiteEligible(m) - NumBlackEligible(m)
    ELSE NumBlackEligible(m) - NumWhiteEligible(m)

\* C11 as stated: after every successful start the numbers of White-eligible
\* and Black-eligible players differ by at most 1.
C11_BalancedAfterStart ==
    [][\A m \in Matches : StartStep(m) => SideDifference(m)' =< 1]_vars

\* C11, amended: after a successful start the two counts differ by at most 1
\* unless the sides joined explicitly differed by more than the number of
\* random players; then every random player is on the smaller side and the
\* difference is the explicit difference less the number of random players.
C11_BalancedUpToExplicitSides ==
    [][\A m \in Matches :
          StartStep(m)
          => IF SideDifference(m) > num_random_players(m)
             THEN SideDifference(m)' = SideDifference(m) - num_random_players(m)
             ELSE SideDifference(m)' =< 1]_vars

\* Match 1 is In Progress with an eligible voter on each side and two more
\* eligible voters on one side than on the other.
C11_Witness ==
    /\ 1 \in DOMAIN VoteMatches
    /\ VoteMatches[1].status = "In Progress"
    /\ NumWhiteEligible(1) > 0
    /\ NumBlackEligible(1) > 0
    /\ SideDifference(1) = 2

\* Start of match m succeeds.
StartSucceeds(m) == Start(m) /\ VoteMatches'[m].status = "In Progress"

\* Start of match m changes the state.
StartChanges(m) == Start(m) /\ vars' # vars

\* The two cases in which start is to fail: one side has no White, Black or
\* Both member and nobody joined as random, or both sides are empty and
\* fewer than 2 players joined as random.
StartMustFail(m) ==
    \/ /\ (NumWhiteEligible(m) = 0 \/ NumBlackEligible(m) = 0)
       /\ num_random_players(m) = 0
    \/ /\ NumWhiteEligible(m) = 0
       /\ NumBlackEligible(m) = 0
       /\ num_random_players(m) < 2

\* C12: on a Not Started match with at least one pairing, start changes
\* nothing in the two failing cases and succeeds in every other case.
C12_StartValidation ==
    \A m \in DOMAIN VoteMatches :
        (/\ VoteMatches[m].status = "Not Started"
         /\ \E p \in Players : <<m, p>> \in DOMAIN VoteMatchPairings)
        => IF StartMustFail(m)
           THEN ~ ENABLED StartChanges(m)
           ELSE ENABLED StartSucceeds(m)

\* Match 1 is Not Started, a single player joined it, as random: start is to
\* fail for lack of players.
C12_Witness ==
    /\ 1 \in DOMAIN VoteMatches
    /\ VoteMatches[1].status = "Not Started"
    /\ num_random_players(1) = 1
    /\ NumWhiteEligible(1) = 0
    /\ NumBlackEligible(1) = 0

\* The move vote of p on match m with the text changes the state.
VoteMoveChanges(m, p, text) == VoteMove(m, p, text) /\ vars' # vars

\* The resign or draw vote of p on match m changes the state.
VoteFlagChanges(m, p, flag) == VoteResignOrDraw(m, p, flag) /\ vars' # vars

\* Player p holds a move candidate at the current ply of match m.
HoldsCandidate(m, p) ==
    \E i \in 1..Len(VoteMatchVotes) :
        /\ Like(m, VoteMatchVotes[i].match_code)
        /\ VoteMatchVotes[i].ply_count = get_ply(VoteMatches[m].pgn)
        /\ VoteMatchVotes[i].discord_id = p
        /\ VoteMatchVotes[i].vote # NULL

\* C13: a move vote by a player who holds a move candidate at the current
\* ply changes nothing, whatever move it names, and no step replaces the
\* candidate of a stored row by another candidate.
C13_DuplicateVoteRejected ==
    /\ [](\A m \in DOMAIN VoteMatches : \A p \in Players : \A text \in MoveTexts :
             HoldsCandidate(m, p) => ~ ENABLED VoteMoveChanges(m, p, text))
    /\ [][\A i \in 1..Len(VoteMatchVotes) : \A j \in 1..Len(VoteMatchVotes') :
             (/\ VoteMatchVotes[i].vote # NULL
              /\ VoteMatchVotes'[j].match_code = VoteMatchVotes[i].match_code
              /\ VoteMatchVotes'[j].discord_id = VoteMatchVotes[i].discord_id
              /\ VoteMatchVotes'[j].ply_count = VoteMatchVotes[i].ply_count)
             => VoteMatchVotes'[j].vote = VoteMatchVotes[i].vote]_vars

\* C14: a vote for a move, to resign or to draw changes nothing when the
\* match is not In Progress or the caller has no pairing in it with the side
\* to move or Both.
C14_VoteRejected ==
    \A m \in DOMAIN VoteMatches : \A p \in Players :
        (\/ VoteMatches[m].status # "In Progress"
         \/ <<m, p>> \notin DOMAIN VoteMatchPairings
         \/ VoteMatchPairings[<<m, p>>].side \notin {SideAt(get_ply(VoteMatches[m].pgn)), "Both"})
        => /\ \A text \in MoveTexts : ~ ENABLED VoteMoveChanges(m, p, text)
           /\ \A flag \in {"resign", "draw"} : ~ ENABLED VoteFlagChanges(m, p, flag)

\* Match 1 is In Progress with White to move, a White player has voted and
\* another player is paired with Black only.
C14_Witness ==
    /\ 1 \in DOMAIN VoteMatches
    /\ VoteMatches[1].status = "In Progress"
    /\ VoteMatches[1].pgn = << >>
    /\ PlayersVoted(1, 0) # {}
    /\ \E p \in Players :
          /\ <<1, p>> \in DOMAIN VoteMatchPairings
          /\ VoteMatchPairings[<<1, p>>].side = "Black"

\* C15: within one match the ply never decreases and a step changes it only
\* by +1, and a step that changes the mainline extends the stored one.
C15_PlySequential ==
    [][\A m \in DOMAIN VoteMatches :
          \/ VoteMatches'[m].pgn = VoteMatches[m].pgn
          \/ /\ get_ply(VoteMatches'[m].pgn) = get_ply(VoteMatches[m].pgn) + 1
             /\ SubSeq(VoteMatches'[m].pgn, 1, get_ply(VoteMatches[m].pgn)) = VoteMatches[m].pgn]_vars

\* C16: a pairing is deleted only while its match is Not Started.
C16_LeaveOnlyNotStarted ==
    [][\A k \in DOMAIN VoteMatchPairings :
          k \notin DOMAIN VoteMatchPairings' => VoteMatches[k[1]].status = "Not Started"]_vars

\* The pairings without those of player p in Not Started matches.
WithoutNotStartedOf(p) ==
    [k \in {x \in DOMAIN VoteMatchPairings :
                ~ (x[2] = p /\ VoteMatches[x[1]].status = "Not Started")}
        |-> VoteMatchPairings[k]]

\* `leave all` of player p removes p's pairings of Not Started matches and
\* nothing else.
LeaveAllLeaves(p) ==
    /\ LeaveAll(p)
    /\ VoteMatchPairings' = WithoutNotStartedOf(p)
    /\ UNCHANGED <<VoteMatches, VoteMatchVotes, VoteMatchDrawOffers>>

\* C17: in every state and for every player, `leave all` removes the
\* caller's pairing from every Not Started match the caller joined and from
\* no other match.
C17_LeaveAll == \A p \in Players : ENABLED LeaveAllLeaves(p)

\* C18: a step that records the first move candidate of a player at the
\* current ply of a match increases that player's votes_cast by exactly 1.
C18_VotesCastOnVote ==
    [][\A m \in DOMAIN VoteMatches : \A p \in Players : \A ply \in 0..MaxPly :
          (/\ ply = get_ply(VoteMatches[m].pgn)
           /\ <<m, p>> \in DOMAIN VoteMatchPairings
           /\ p \notin PlayersVoted(m, ply)
           /\ p \in PlayersVoted(m, ply)')
          => VoteMatchPairings'[<<m, p>>].votes_cast
                 = VoteMatchPairings[<<m, p>>].votes_cast + 1]_vars

\* C19: a tally leaves no partial effect: a tally step that changes a
\* counter of the match also writes the mainline with the top move, a tally
\* step that makes the match Complete writes the deciding move, and the two
\* counters of a voter of the top move change together.
C19_NoPartialTally ==
    [][\A h \in handlers :
          TallyStep(h)
          => /\ (\/ \E k \in DOMAIN VoteMatchPairings :
                       /\ k[1] = h.match_code
                       /\ VoteMatchPairings'[k] # VoteMatchPairings[k]
                  \/ /\ VoteMatches[h.match_code].status # "Complete"
                     /\ VoteMatches'[h.match_code].status = "Complete")
                 => \E move \in Moves : VoteMatches'[h.match_code].pgn = Append(h.pgn, move)
             /\ \A k \in DOMAIN VoteMatchPairings :
                    VoteMatchPairings'[k].top_move_votes_cast # VoteMatchPairings[k].top_move_votes_cast
                    => VoteMatchPairings'[k].votes_cast # VoteMatchPairings[k].votes_cast]_vars

\* C20: an abort with the code of a Not Started match makes it Aborted, and
\* no abort, whatever its argument, changes the status or the mainline of a
\* match that is In Progress, or any vote.
C20_AbortOnlyNotStarted ==
    [][\A text \in MatchCodeTexts :
          Abort(text)
          => /\ \A m \in DOMAIN VoteMatches :
                    /\ (text = m /\ VoteMatches[m].status = "Not Started")
                           => VoteMatches'[m].status = "Aborted"
                    /\ VoteMatches[m].status = "In Progress"
                           => /\ VoteMatches'[m].status = "In Progress"
                              /\ VoteMatches'[m].pgn = VoteMatches[m].pgn
             /\ VoteMatchVotes' = VoteMatchVotes]_vars

\* The position after the mainline is one of the four terminal conditions.
IsTerminal(game) ==
    is_checkmate(game) \/ is_stalemate(game) \/ is_repetition(game) \/ is_fifty_moves(game)

\* The result of the first terminal condition that holds, NULL when none.
TerminalResult(game) ==
    CASE is_checkmate(game) -> "checkmate"
      [] ~ is_checkmate(game) /\ is_stalemate(game) -> "stalemate"
      [] ~ is_checkmate(game) /\ ~ is_stalemate(game) /\ is_repetition(game) -> "repetition"
      [] OTHER -> IF is_fifty_moves(game) THEN "50-move rule" ELSE NULL

\* C21: when a tally applies a move to a match that is In Progress, the match
\* is Complete afterwards if and only if the new position is checkmate,
\* stalemate, a repetition or under the fifty-move rule; the result is the
\* first of these that holds, the termination a win of the side that moved
\* on checkmate and a draw otherwise; when none holds the match stays In
\* Progress with result NULL.
C21_TerminalDetection ==
    [][\A h \in handlers :
          (/\ TallyStep(h)
           /\ h.match_code \in DOMAIN VoteMatches
           /\ VoteMatches[h.match_code].status = "In Progress"
           /\ VoteMatches'[h.match_code].pgn # VoteMatches[h.match_code].pgn)
          => LET after == VoteMatches'[h.match_code]
             IN  /\ after.status = (IF IsTerminal(after.pgn) THEN "Complete" ELSE "In Progress")
                 /\ after.result = TerminalResult(after.pgn)
                 /\ after.termination =
                        (IF is_checkmate(after.pgn)
                         THEN (IF get_turn(after.pgn) = "White" THEN "0-1" ELSE "1-0")
                         ELSE IF IsTerminal(after.pgn) THEN "1/2-1/2" ELSE "*")]_vars

\* C22: a match becomes Complete only from In Progress and only in a step of
\* one of its own vote handlers (a tally or a majority check); a match leaves
\* Not Started only to In Progress (start) or Aborted (abort).
C22_CompleteByOwnAction ==
    [][\A m \in DOMAIN VoteMatches :
          /\ (VoteMatches[m].status # "Complete" /\ VoteMatches'[m].status = "Complete")
                 => /\ VoteMatches[m].status = "In Progress"
                    /\ \E h \in handlers :
                           h.match_code = m /\ (TallyStep(h) \/ MajorityStep(h))
          /\ (VoteMatches[m].status = "Not Started" /\ VoteMatches'[m].status # "Not Started")
                 => VoteMatches'[m].status \in {"In Progress", "Aborted"}]_vars

\* C23: a resign or draw flag that a row of (match, player, ply) holds is
\* held by a row of the same key after every step.
C23_FlagsStay ==
    [][\A i \in 1..Len(VoteMatchVotes) : \A flag \in {"resign", "draw"} :
          HasFlag(i, flag)
          => \E j \in 1..Len(VoteMatchVotes') :
                 /\ VoteMatchVotes'[j].match_code = VoteMatchVotes[i].match_code
                 /\ VoteMatchVotes'[j].discord_id = VoteMatchVotes[i].discord_id
                 /\ VoteMatchVotes'[j].ply_count = VoteMatchVotes[i].ply_count
                 /\ IF flag = "resign" THEN VoteMatchVotes'[j].voted_resign
                                       ELSE VoteMatchVotes'[j].voted_draw]_vars

\* Player p holds the flag at the current ply of match m.
HoldsFlagNow(m, p, flag) ==
    \E i \in 1..Len(VoteMatchVotes) :
        /\ Like(m, VoteMatchVotes[i].match_code)
        /\ VoteMatchVotes[i].ply_count = get_ply(VoteMatches[m].pgn)
        /\ VoteMatchVotes[i].discord_id = p
        /\ HasFlag(i, flag)

\* C24: a resign or draw vote by a player who holds that flag at the current
\* ply of the match changes nothing: no row, no status, and no handler that
\* would go on to the majority check.
C24_ReissueNoOp ==
    \A m \in DOMAIN VoteMatches : \A p \in Players : \A flag \in {"resign", "draw"} :
        HoldsFlagNow(m, p, flag) => ~ ENABLED VoteFlagChanges(m, p, flag)

\* C25: when a match is In Progress and no vote handler is suspended, some
\* eligible voter of the side to move has no move candidate at the current
\* ply.
C25_NoCompleteRoundAtRest ==
    \A m \in DOMAIN VoteMatches :
        (VoteMatches[m].status = "In Progress" /\ handlers = {})
        => PlayersNotVoted(m, get_turn(VoteMatches[m].pgn), get_ply(VoteMatches[m].pgn)) # {}

\* C26: `assert not all_players_voted` holds whenever a resign or draw vote
\* is recorded: in every state in which such a vote would be recorded, some
\* eligible voter of the side to move has no move candidate at the current
\* ply (the flag vote leaves the candidates as they are).
C26_AssertHolds ==
    \A m \in DOMAIN VoteMatches : \A p \in Players : \A flag \in {"resign", "draw"} :
        ENABLED VoteFlagChanges(m, p, flag)
        => PlayersNotVoted(m, get_turn(VoteMatches[m].pgn), get_ply(VoteMatches[m].pgn)) # {}

\* C27: a tally that plays a move adds exactly 1 to top_move_votes_cast of
\* each player whose vote at the ply is the move played and leaves the
\* top_move_votes_cast of every other player; a tally that ties leaves every
\* counter.
C27_TopMoveVotesCast ==
    [][\A h \in handlers :
          TallyStep(h)
          => LET m == h.match_code
                 ply == get_ply(h.pgn)
             IN  /\ \A move \in Moves :
                        VoteMatches'[m].pgn = Append(h.pgn, move)
                        => \A k \in DOMAIN VoteMatchPairings :
                               k[1] = m
                               => VoteMatchPairings'[k].top_move_votes_cast =
                                     VoteMatchPairings[k].top_move_votes_cast
                                        + (IF \E i \in RowsAt(m, ply) :
                                                  /\ VoteMatchVotes[i].discord_id = k[2]
                                                  /\ VoteMatchVotes[i].vote = move
                                           THEN 1 ELSE 0)
                 /\ VoteMatchVotes' # VoteMatchVotes => VoteMatchPairings' = VoteMatchPairings]_vars

\* A tally has played e4 for two voters of whom one voted e4: the counter of
\* top moves is 1 for that voter and 0 for the other, who voted too.
C27_Witness ==
    \E p, q \in Players :
        /\ <<1, p>> \in DOMAIN VoteMatchPairings
        /\ <<1, q>> \in DOMAIN VoteMatchPairings
        /\ VoteMatchPairings[<<1, p>>].top_move_votes_cast = 1
        /\ VoteMatchPairings[<<1, q>>].top_move_votes_cast = 0
        /\ VoteMatchPairings[<<1, q>>].votes_cast = 1
        /\ Len(VoteMatches[1].pgn) = 1

\* C28: a move vote whose text parses neither with push_san nor with push_uci
\* on the current board is rejected: issued by an eligible voter of an In
\* Progress match, it changes no vote row, counter, mainline or status, and
\* starts no handler (so nothing evaluates whether the round is complete).
C28_IllegalMoveRejected ==
    \A m \in DOMAIN VoteMatches : \A p \in Players : \A text \in MoveTexts :
        (/\ MayVote(m, p)
         /\ push_san(VoteMatches[m].pgn, text) = IllegalMove
         /\ push_uci(VoteMatches[m].pgn, text) = IllegalMove)
        => ~ ENABLED VoteMoveChanges(m, p, text)

\* Match 1 is In Progress, one eligible voter holds a candidate and another
\* eligible voter, who has not voted at the ply, can send a text that does
\* not parse.
C28_Witness ==
    /\ 1 \in DOMAIN VoteMatches
    /\ \E p, q \in Players :
          /\ MayVote(1, p) /\ MayVote(1, q)
          /\ HoldsCandidate(1, q)
          /\ ~ HoldsCandidate(1, p)
          /\ get_ply(VoteMatches[1].pgn) < MaxPly
          /\ \E text \in MoveTexts : ParseMoveVote(VoteMatches[1].pgn, text) = IllegalMove

\* The move a text denotes, as its origin and target squares.
DenotedMove(text) ==
    CASE text \in {"e4", "e2e4"} -> "e2e4"
      [] text = "d4" -> "d2d4"
      [] text = "Kb1" -> "a1b1"
      [] text \in {"Qh4", "Qh4#"} -> "d8h4"
      [] OTHER -> text

\* p holds at (m, ply) the canonical SAN of the move that text denotes.
HoldsDenoted(m, p, ply, text) ==
    \E i \in RowsAt(m, ply) :
        /\ VoteMatchVotes[i].discord_id = p
        /\ VoteMatchVotes[i].vote \in Moves
        /\ DenotedMove(VoteMatchVotes[i].vote) = DenotedMove(text)

\* The votes of (m, ply) that denote the same move are the same candidate,
\* and the tally's grouping puts their voters into one group.
SameMoveSameGroup(m, ply) ==
    LET groups == players_by_vote(VotesAt(m, ply))
    IN  \A i, j \in RowsAt(m, ply) :
            (/\ VoteMatchVotes[i].vote # NULL
             /\ VoteMatchVotes[j].vote # NULL
             /\ DenotedMove(VoteMatchVotes[i].vote) = DenotedMove(VoteMatchVotes[j].vote))
            => /\ VoteMatchVotes[i].vote = VoteMatchVotes[j].vote
               /\ \E g \in 1..Len(groups) :
                      /\ groups[g][1] = VoteMatchVotes[i].vote
                      /\ \E a, b \in 1..Len(groups[g][2]) :
                             /\ groups[g][2][a] = VoteMatchVotes[i].discord_id
                             /\ groups[g][2][b] = VoteMatchVotes[j].discord_id

\* C29: whatever notation a move vote is typed in (SAN, square pair, with or
\* without the check marker), the vote is stored as the canonical SAN of the
\* move it denotes, and afterwards the votes of the ply that denote the same
\* move are one candidate whose voters the tally counts in one group.
C29_SameCandidate ==
    \A m \in DOMAIN VoteMatches : \A p \in Players : \A text \in MoveTexts :
        \A ply \in 0..MaxPly :
            ply = get_ply(VoteMatches[m].pgn)
            => ~ ENABLED (/\ VoteMoveChanges(m, p, text)
                          /\ ~ (HoldsDenoted(m, p, ply, text) /\ SameMoveSameGroup(m, ply))')

\* Two voters hold the candidate e4 at ply 0 of match 1, where one can have
\* typed e4 and the other e2e4, and the grouping has them in one group.
C29_Witness ==
    /\ 1 \in DOMAIN VoteMatches
    /\ \E p, q \in Players :
          /\ p # q
          /\ HoldsDenoted(1, p, 0, "e4")
          /\ HoldsDenoted(1, q, 0, "e2e4")
          /\ Len(players_by_vote(VotesAt(1, 0))) = 1
          /\ Len(players_by_vote(VotesAt(1, 0))[1][2]) = 2

\* C30: a player paired with Both in an In Progress match is an eligible
\* voter at every ply, and while that player holds no candidate at the
\* current ply (a vote of an earlier ply does not count for it) no tally
\* plays a move of the ply.
C30_BothVotesEveryPly ==
    \A m \in DOMAIN VoteMatches : \A p \in Players : \A ply \in 0..MaxPly :
        (/\ <<m, p>> \in DOMAIN VoteMatchPairings
         /\ VoteMatchPairings[<<m, p>>].side = "Both"
         /\ VoteMatches[m].status = "In Progress"
         /\ get_ply(VoteMatches[m].pgn) = ply)
        => /\ MayVote(m, p)
           /\ p \notin PlayersVoted(m, ply)
              => ~ ENABLED (\E h \in handlers :
                               /\ Tally(h)
                               /\ get_ply(VoteMatches'[m].pgn) = ply + 1)

\* C31: a successful start of a match with random players has, for one of
\* the two coin outcomes, this effect: when the transfer computed for White
\* or for Black is negative, every random player is on the side that had
\* fewer members and the other side is as it was; otherwise White has
\* floor(total/2) and Black ceil(total/2) members, or the reverse, as the
\* coin chose.
C31_TransferOfRandomPlayers ==
    [][\A m \in Matches :
          (StartStep(m) /\ num_random_players(m) > 0)
          => \E rand_preference \in BOOLEAN :
                LET white == NumWhiteEligible(m)
                    black == NumBlackEligible(m)
                    rand == num_random_players(m)
                    total == white + black + rand
                    to_white == future_num(total, rand_preference) - white
                    to_black == future_num(total, ~rand_preference) - black
                IN  IF to_white < 0 \/ to_black < 0
                    THEN /\ white # black
                         /\ NumWhiteEligible(m)' = (IF white < black THEN white + rand ELSE white)
                         /\ NumBlackEligible(m)' = (IF black < white THEN black + rand ELSE black)
                    ELSE /\ NumWhiteEligible(m)' = future_num(total, rand_preference)
                         /\ NumBlackEligible(m)' = future_num(total, ~rand_preference)]_vars

\* Match 1 was started with two White players and a third player who is
\* now Black: had that player joined as random, the transfer computed for
\* White with the coin on Black was negative.
C31_Witness ==
    /\ 1 \in DOMAIN VoteMatches
    /\ VoteMatches[1].status = "In Progress"
    /\ Cardinality(players_by_side(1, "White")) = 2
    /\ Cardinality(players_by_side(1, "Black")) = 1
    /\ players_by_side(1, "Both") = {}

\* The join of p to match m with the side changes the state.
JoinChanges(m, p, side) == Join(m, p, side) /\ vars' # vars

\* The pairings after a join of p to m are the pairings before it with the
\* one row of (m, p) carrying the side, and no other row added or changed.
JoinedOnce(m, p, side) ==
    /\ DOMAIN VoteMatchPairings' = DOMAIN VoteMatchPairings \cup {<<m, p>>}
    /\ VoteMatchPairings'[<<m, p>>].side = side
    /\ \A k \in DOMAIN VoteMatchPairings :
           k # <<m, p>> => VoteMatchPairings'[k] = VoteMatchPairings[k]

\* C32: the pairings hold one row per (match, player): a join to a Not
\* Started match leaves exactly one row of the match and the player, with
\* the side of this join, also when the player had joined before; a join to
\* a match of any other status changes nothing.
C32_OnePairing ==
    \A m \in DOMAIN VoteMatches : \A p \in Players : \A side \in MatchSides :
        IF VoteMatches[m].status = "Not Started"
        THEN ~ ENABLED (Join(m, p, side) /\ ~ JoinedOnce(m, p, side))
        ELSE ~ ENABLED JoinChanges(m, p, side)

\* Player 1 is paired in match 1, which is In Progress, and in match 2,
\* which is Not Started: a join to the first is to be refused, a join to the
\* second replaces the side.
C32_Witness ==
    /\ 2 \in DOMAIN VoteMatches
    /\ VoteMatches[1].status = "In Progress"
    /\ VoteMatches[2].status = "Not Started"
    /\ <<1, 1>> \in DOMAIN VoteMatchPairings
    /\ <<2, 1>> \in DOMAIN VoteMatchPairings

\* C33: a create step adds one match under a code that no match had, and
\* leaves the row of every match there was as it is.
C33_CreateFreshCode ==
    [][\A m \in Matches :
          Create(m)
          => /\ m \notin DOMAIN VoteMatches
             /\ DOMAIN VoteMatches' = DOMAIN VoteMatches \cup {m}
             /\ \A c \in DOMAIN VoteMatches : VoteMatches'[c] = VoteMatches[c]]_vars

\* Match 2 was created while match 1 had a move in its mainline: match 1
\* has kept its row.
C33_Witness ==
    /\ 2 \in DOMAIN VoteMatches
    /\ VoteMatches[1].pgn # << >>
    /\ VoteMatches[2].status = "Not Started"

\* Every eligible voter of the side to move at (m, ply) holds the candidate
\* move there, and there is such a voter.
Unanimous(m, ply, move) ==
    /\ PlayersOnSide(m, SideAt(ply)) # {}
    /\ \A p \in PlayersOnSide(m, SideAt(ply)) :
           \E i \in RowsAt(m, ply) :
               /\ VoteMatchVotes[i].discord_id = p
               /\ VoteMatchVotes[i].vote = move

\* C34: a tally of a round in which every eligible voter holds the same
\* candidate plays that candidate, the mainline being one ply longer than
\* the one the round was voted on, and does not void the round as a tie.
C34_UnanimousIsPlayed ==
    [][\A h \in handlers : \A move \in Moves :
          (TallyStep(h) /\ Unanimous(h.match_code, get_ply(h.pgn), move))
          => /\ VoteMatches'[h.match_code].pgn = Append(h.pgn, move)
             /\ VoteMatchVotes' = VoteMatchVotes]_vars

\* C35: every In Progress match has an eligible voter for White and an
\* eligible voter for Black.
C35_BothSidesHaveVoters ==
    \A m \in DOMAIN VoteMatches :
        VoteMatches[m].status = "In Progress"
        => /\ PlayersOnSide(m, "White") # {}
           /\ PlayersOnSide(m, "Black") # {}

\* C36: no In Progress match is at rest, with no coroutine in flight, while
\* at least floor(n/2)+1 of the n eligible voters of the side to move hold
\* a resign flag at its current ply.
C36_NoResignMajorityAtRest ==
    \A m \in DOMAIN VoteMatches :
        (VoteMatches[m].status = "In Progress" /\ handlers = {})
        => ~ FlagMajority(m, get_ply(VoteMatches[m].pgn), "resign")

\* C37: no step changes the mainline of a match whose status is Aborted or
\* Complete.
C37_MainlineOnlyInProgress ==
    [][\A m \in DOMAIN VoteMatches :
          VoteMatches[m].status \in {"Aborted", "Complete"}
          => VoteMatches'[m].pgn = VoteMatches[m].pgn]_vars

\* C38: for every draw offer marker (m, P), at least floor(n/2)+1 of the n
\* voters eligible at ply P hold a draw flag in the vote rows of ply P.
C38_MarkerHasMajority ==
    \A o \in VoteMatchDrawOffers :
        o[1] \in DOMAIN VoteMatches => FlagMajority(o[1], o[2], "draw")

\* C39: on every Not Started match that passes the validation of start and
\* has random players, for either coin outcome, `assert False` is not
\* reached (num_transfer is not <<-1, -1>>), random.sample is asked for a
\* number between 0 and the number of random players, and the random
\* players it leaves are as many as num_transfer_to_black; and no started
\* match has a player who is still random.
C39_StartAssertionsHold ==
    \A m \in DOMAIN VoteMatches :
        /\ (/\ VoteMatches[m].status = "Not Started"
            /\ EnoughPlayers(m)
            /\ num_random_players(m) > 0)
           => \A rand_preference \in BOOLEAN :
                  LET n == num_transfer(m, rand_preference)
                  IN  /\ n[1] >= 0
                      /\ n[1] =< num_random_players(m)
                      /\ num_random_players(m) - n[1] = n[2]
        /\ VoteMatches[m].status = "In Progress" => num_random_players(m) = 0

\* Match 1 is Not Started with two White players and one random player:
\* start passes the validation and, with the coin on Black, computes a
\* negative transfer to White.
C39_Witness ==
    /\ 1 \in DOMAIN VoteMatches
    /\ VoteMatches[1].status = "Not Started"
    /\ Cardinality(players_by_side(1, "White")) = 2
    /\ num_black_players(1) = 0
    /\ num_random_players(1) = 1

\* C40: in every pairing top_move_votes_cast is at most votes_cast.
C40_TopMoveAtMostVotesCast ==
    \A k \in DOMAIN VoteMatchPairings :
        VoteMatchPairings[k].top_move_votes_cast =< VoteMatchPairings[k].votes_cast

====
